---- MODULE Spec2Model ----
(***************************************************************************)
(* A model of the ElevenLabs text-to-speech client: the request builder    *)
(* (SpeechRequestBuilder), the validation and request construction of      *)
(* SpeechClient::send_speech_request, the transport boundary at which the  *)
(* call suspends, and the classification of the transport's answer.        *)
(***************************************************************************)
EXTENDS Integers, Sequences, FiniteSets, TLC

(***************************************************************************)
(* Bounds of the model.                                                    *)
(***************************************************************************)
\* Number of builders created from the one SpeechClient.
NumInvocations == 2

Procs == 1..NumInvocations

(***************************************************************************)
(* Option<T>: None is the empty sequence, Some(x) the one-element one.     *)
(***************************************************************************)
None == <<>>
Some(x) == <<x>>
is_none(o) == o = None
is_some(o) == o # None
unwrap(o) == o[1]
unwrap_or(o, d) == IF o = None THEN d ELSE o[1]

(***************************************************************************)
(* f32.  A value is NaN or a finite number held in thousandths.  Every     *)
(* ordered comparison with NaN is false (IEEE 754), as Rust's < and > on   *)
(* f32 are.                                                                *)
(***************************************************************************)
F32(m) == [nan |-> FALSE, milli |-> m]
NAN == [nan |-> TRUE, milli |-> 0]
f32_lt(a, b) == ~a.nan /\ ~b.nan /\ a.milli < b.milli
f32_gt(a, b) == ~a.nan /\ ~b.nan /\ a.milli > b.milli

(***************************************************************************)
(* String, for the request text: a text of `ascii` one-byte characters and *)
(* `wide` two-byte characters.  String::len() is the length in bytes.      *)
(***************************************************************************)
Str(a, w) == [ascii |-> a, wide |-> w]
str_len(s) == s.ascii + 2 * s.wide
str_is_empty(s) == str_len(s) = 0

(***************************************************************************)
(* client.rs constants.                                                    *)
(***************************************************************************)
MAX_INPUT_LENGTH == 5000
MIN_VOICE_SETTING == F32(0)
MAX_VOICE_SETTING == F32(1000)
DEFAULT_BASE_URL == "https://api.elevenlabs.io"
DEFAULT_TIMEOUT == 60000

(***************************************************************************)
(* types.rs enumerations and their string tables.                          *)
(***************************************************************************)
TtsModel == {"ElevenV3", "ElevenMultilingualV2", "ElevenFlashV25", "ElevenTurboV25"}

TtsModel_as_str(m) ==
    CASE m = "ElevenV3" -> "eleven_v3"
      [] m = "ElevenMultilingualV2" -> "eleven_multilingual_v2"
      [] m = "ElevenFlashV25" -> "eleven_flash_v2_5"
      [] m = "ElevenTurboV25" -> "eleven_turbo_v2_5"

TtsModel_default == "ElevenMultilingualV2"

Voice == {"Rachel", "Drew", "Clyde", "Paul", "Aria", "Domi", "Dave", "Roger", "Fin", "Sarah"}

Voice_as_voice_id(v) ==
    CASE v = "Rachel" -> "21m00Tcm4TlvDq8ikWAM"
      [] v = "Drew" -> "29vD33N1CtxCmqQRPOHJ"
      [] v = "Clyde" -> "2EiwWnXFnvU5JabPnv8n"
      [] v = "Paul" -> "5Q0t7uMcjvnagumLfvZi"
      [] v = "Aria" -> "9BWtsMINqrJLrRacOk9x"
      [] v = "Domi" -> "AZnzlk1XvdvUeBnXmlld"
      [] v = "Dave" -> "CYw3kZ02Hs0563khs1Fj"
      [] v = "Roger" -> "CwhRBWXzGAHq8TQ4Fs17"
      [] v = "Fin" -> "D38z5RcWu1voky8WS1ja"
      [] v = "Sarah" -> "EXAVITQu4vr4xnSDxMaL"

Voice_default == "Rachel"

AudioFormat ==
    {"Mp3_22050_32", "Mp3_44100_32", "Mp3_44100_64", "Mp3_44100_96",
     "Mp3_44100_128", "Mp3_44100_192", "Pcm16000", "Pcm22050", "Pcm24000",
     "Pcm44100", "Ulaw8000"}

AudioFormat_as_str(f) ==
    CASE f = "Mp3_22050_32" -> "mp3_22050_32"
      [] f = "Mp3_44100_32" -> "mp3_44100_32"
      [] f = "Mp3_44100_64" -> "mp3_44100_64"
      [] f = "Mp3_44100_96" -> "mp3_44100_96"
      [] f = "Mp3_44100_128" -> "mp3_44100_128"
      [] f = "Mp3_44100_192" -> "mp3_44100_192"
      [] f = "Pcm16000" -> "pcm_16000"
      [] f = "Pcm22050" -> "pcm_22050"
      [] f = "Pcm24000" -> "pcm_24000"
      [] f = "Pcm44100" -> "pcm_44100"
      [] f = "Ulaw8000" -> "ulaw_8000"

AudioFormat_default == "Mp3_44100_128"

TextNormalization == {"Auto", "On", "Off"}

\* #[serde(rename_all = "lowercase")]
TextNormalization_wire(m) ==
    CASE m = "Auto" -> "auto"
      [] m = "On" -> "on"
      [] m = "Off" -> "off"

(***************************************************************************)
(* VoiceSettings and SpeechRequest, with their Default values.             *)
(***************************************************************************)
VoiceSettings_default ==
    [stability |-> None, similarity_boost |-> None, style |-> None,
     use_speaker_boost |-> None]

SpeechRequest_default ==
    [text |-> Str(0, 0),
     model |-> TtsModel_default,
     voice |-> Voice_default,
     voice_settings |-> None,
     output_format |-> None,
     language_code |-> None,
     seed |-> None,
     previous_text |-> None,
     next_text |-> None,
     previous_request_ids |-> None,
     next_request_ids |-> None,
     apply_text_normalization |-> None,
     apply_language_text_normalization |-> None]

(***************************************************************************)
(* TtsError.                                                               *)
(***************************************************************************)
MissingInput == [kind |-> "MissingInput"]
InputTooLong(n) == [kind |-> "InputTooLong", len |-> n]
InvalidVoiceSettings(f, v) == [kind |-> "InvalidVoiceSettings", field |-> f, value |-> v]
MissingApiKey == [kind |-> "MissingApiKey"]
ApiError(s, m) == [kind |-> "ApiError", status |-> s, message |-> m]
HttpClient(e) == [kind |-> "HttpClient", source |-> e]

\* Result<SpeechResponse, TtsError>
Ok(v) == [ok |-> TRUE, value |-> v]
Err(e) == [ok |-> FALSE, err |-> e]

(***************************************************************************)
(* The state.                                                              *)
(*   client    the SpeechClient: api_key, base_url, timeout                *)
(*   pc        where each invocation stands: "idle" (no builder yet),      *)
(*             "building", "awaiting" (suspended at the transport),        *)
(*             "answered" (the transport has answered or failed, the       *)
(*             future is not yet resumed), "done"                          *)
(*   request   the builder's SpeechRequest                                 *)
(*   http      the HTTP request handed to the transport, if any            *)
(*   calls     how many times the transport was invoked                    *)
(*   answer    the transport's answer, once given                          *)
(*   result    what execute() returned, once it has                        *)
(*   lastCall  the builder method called last (history)                    *)
(***************************************************************************)
VARIABLES client, pc, request, http, calls, answer, result, lastCall

vars == <<client, pc, request, http, calls, answer, result, lastCall>>


(***************************************************************************)
(* SpeechClient: construction and configuration.  with_base_url and        *)
(* with_timeout take the client by value, so the borrow checker admits     *)
(* them only while no builder (which holds &SpeechClient) exists.          *)
(***************************************************************************)
SpeechClient_new(api_key) ==
    [api_key |-> api_key, base_url |-> DEFAULT_BASE_URL, timeout |-> DEFAULT_TIMEOUT]

Unborrowed == \A p \in Procs : pc[p] = "idle"

with_base_url(base_url) ==
    /\ Unborrowed
    /\ client' = [client EXCEPT !.base_url = base_url]
    /\ UNCHANGED <<pc, request, http, calls, answer, result>>

with_timeout(timeout) ==
    /\ Unborrowed
    /\ client' = [client EXCEPT !.timeout = timeout]
    /\ UNCHANGED <<pc, request, http, calls, answer, result>>

synthesize(p) ==
    /\ pc[p] = "idle"
    /\ pc' = [pc EXCEPT ![p] = "building"]
    /\ request' = [request EXCEPT ![p] = SpeechRequest_default]
    /\ UNCHANGED <<client, http, calls, answer, result>>

(***************************************************************************)
(* SpeechRequestBuilder: one action per setter.  A setter replaces one     *)
(* field of the builder's request and returns the builder.                 *)
(***************************************************************************)
Building(p) == pc[p] = "building"

BuilderFrame == UNCHANGED <<client, pc, http, calls, answer, result>>

text(p, t) ==
    /\ Building(p)
    /\ request' = [request EXCEPT ![p].text = t]
    /\ BuilderFrame

input(p, t) == text(p, t)

model(p, m) ==
    /\ Building(p)
    /\ request' = [request EXCEPT ![p].model = m]
    /\ BuilderFrame

voice(p, v) ==
    /\ Building(p)
    /\ request' = [request EXCEPT ![p].voice = v]
    /\ BuilderFrame

voice_settings(p, settings) ==
    /\ Building(p)
    /\ request' = [request EXCEPT ![p].voice_settings = Some(settings)]
    /\ BuilderFrame

\* let mut settings = self.request.voice_settings.unwrap_or_default();
\* settings.<field> = Some(value); self.request.voice_settings = Some(settings);
\* A variant of stability that starts from empty settings instead of the current ones.
stability_from_default(p, v) ==
    /\ Building(p)
    /\ request' = [request EXCEPT ![p].voice_settings =
                      Some([VoiceSettings_default EXCEPT !.stability = Some(v)])]
    /\ BuilderFrame

stability(p, v) ==
    /\ Building(p)
    /\ LET settings == unwrap_or(request[p].voice_settings, VoiceSettings_default)
       IN  request' = [request EXCEPT ![p].voice_settings =
                          Some([settings EXCEPT !.stability = Some(v)])]
    /\ BuilderFrame

similarity_boost(p, v) ==
    /\ Building(p)
    /\ LET settings == unwrap_or(request[p].voice_settings, VoiceSettings_default)
       IN  request' = [request EXCEPT ![p].voice_settings =
                          Some([settings EXCEPT !.similarity_boost = Some(v)])]
    /\ BuilderFrame

style(p, v) ==
    /\ Building(p)
    /\ LET settings == unwrap_or(request[p].voice_settings, VoiceSettings_default)
       IN  request' = [request EXCEPT ![p].voice_settings =
                          Some([settings EXCEPT !.style = Some(v)])]
    /\ BuilderFrame

use_speaker_boost(p, b) ==
    /\ Building(p)
    /\ LET settings == unwrap_or(request[p].voice_settings, VoiceSettings_default)
       IN  request' = [request EXCEPT ![p].voice_settings =
                          Some([settings EXCEPT !.use_speaker_boost = Some(b)])]
    /\ BuilderFrame

output_format(p, f) ==
    /\ Building(p)
    /\ request' = [request EXCEPT ![p].output_format = Some(f)]
    /\ BuilderFrame

response_format(p, f) == output_format(p, f)

language_code(p, code) ==
    /\ Building(p)
    /\ request' = [request EXCEPT ![p].language_code = Some(code)]
    /\ BuilderFrame

seed(p, s) ==
    /\ Building(p)
    /\ request' = [request EXCEPT ![p].seed = Some(s)]
    /\ BuilderFrame

previous_text(p, t) ==
    /\ Building(p)
    /\ request' = [request EXCEPT ![p].previous_text = Some(t)]
    /\ BuilderFrame

next_text(p, t) ==
    /\ Building(p)
    /\ request' = [request EXCEPT ![p].next_text = Some(t)]
    /\ BuilderFrame

previous_request_ids(p, ids) ==
    /\ Building(p)
    /\ request' = [request EXCEPT ![p].previous_request_ids = Some(ids)]
    /\ BuilderFrame

next_request_ids(p, ids) ==
    /\ Building(p)
    /\ request' = [request EXCEPT ![p].next_request_ids = Some(ids)]
    /\ BuilderFrame

apply_text_normalization(p, mode) ==
    /\ Building(p)
    /\ request' = [request EXCEPT ![p].apply_text_normalization = Some(mode)]
    /\ BuilderFrame

apply_language_text_normalization(p, enabled) ==
    /\ Building(p)
    /\ request' = [request EXCEPT ![p].apply_language_text_normalization = Some(enabled)]
    /\ BuilderFrame

(***************************************************************************)
(* JSON values, and serde_json's serialization of the wire types.  An      *)
(* object is the sequence of its members in field order.  A field marked   *)
(* skip_serializing_if = "Option::is_none" contributes no member when it   *)
(* is None.  serde_json writes a non-finite f32 as null.                   *)
(***************************************************************************)
JNull == [t |-> "null"]
JBool(b) == [t |-> "bool", b |-> b]
JUnsigned(n) == [t |-> "number", n |-> n]
JFloat(m) == [t |-> "number", milli |-> m]
JString(s) == [t |-> "string", s |-> s]
JText(s) == [t |-> "string", text |-> s]
JArray(items) == [t |-> "array", items |-> items]
JObject(members) == [t |-> "object", members |-> members]

Member(k, v) == [key |-> k, value |-> v]

serialize_f32(v) == IF v.nan THEN JNull ELSE JFloat(v.milli)

serialize_ids(ids) == JArray([i \in 1..Len(ids) |-> JString(ids[i])])

serialize_TextNormalization(m) == JString(TextNormalization_wire(m))

\* A member for Some(value), none for None (skip_serializing_if = "Option::is_none");
\* o is the Option of the value already serialized.
skip_if_none(k, o) == IF is_none(o) THEN <<>> ELSE <<Member(k, unwrap(o))>>

\* Serialize for Option<T>, by the type of the field.
opt_f32(o) == IF is_none(o) THEN None ELSE Some(serialize_f32(unwrap(o)))
opt_bool(o) == IF is_none(o) THEN None ELSE Some(JBool(unwrap(o)))
opt_u32(o) == IF is_none(o) THEN None ELSE Some(JUnsigned(unwrap(o)))
opt_string(o) == IF is_none(o) THEN None ELSE Some(JString(unwrap(o)))
opt_ids(o) == IF is_none(o) THEN None ELSE Some(serialize_ids(unwrap(o)))
opt_TextNormalization(o) ==
    IF is_none(o) THEN None ELSE Some(serialize_TextNormalization(unwrap(o)))

serialize_VoiceSettings(vs) ==
    JObject(skip_if_none("stability", opt_f32(vs.stability))
            \o skip_if_none("similarity_boost", opt_f32(vs.similarity_boost))
            \o skip_if_none("style", opt_f32(vs.style))
            \o skip_if_none("use_speaker_boost", opt_bool(vs.use_speaker_boost)))

opt_VoiceSettings(o) == IF is_none(o) THEN None ELSE Some(serialize_VoiceSettings(unwrap(o)))

\* A variant of the conversion with previous_text and next_text exchanged.
SpeechRequestJson_from_exchanged(req) ==
    [text |-> req.text,
     model_id |-> TtsModel_as_str(req.model),
     language_code |-> req.language_code,
     voice_settings |-> req.voice_settings,
     seed |-> req.seed,
     previous_text |-> req.next_text,
     next_text |-> req.previous_text,
     previous_request_ids |-> req.previous_request_ids,
     next_request_ids |-> req.next_request_ids,
     apply_text_normalization |-> req.apply_text_normalization,
     apply_language_text_normalization |-> req.apply_language_text_normalization]

\* impl From<SpeechRequest> for SpeechRequestJson
SpeechRequestJson_from(req) ==
    [text |-> req.text,
     model_id |-> TtsModel_as_str(req.model),
     language_code |-> req.language_code,
     voice_settings |-> req.voice_settings,
     seed |-> req.seed,
     previous_text |-> req.previous_text,
     next_text |-> req.next_text,
     previous_request_ids |-> req.previous_request_ids,
     next_request_ids |-> req.next_request_ids,
     apply_text_normalization |-> req.apply_text_normalization,
     apply_language_text_normalization |-> req.apply_language_text_normalization]

\* #[derive(Serialize)] struct SpeechRequestJson, through serde_json::to_vec
serialize_SpeechRequestJson(j) ==
    JObject(<<Member("text", JText(j.text)), Member("model_id", JString(j.model_id))>>
            \o skip_if_none("language_code", opt_string(j.language_code))
            \o skip_if_none("voice_settings", opt_VoiceSettings(j.voice_settings))
            \o skip_if_none("seed", opt_u32(j.seed))
            \o skip_if_none("previous_text", opt_string(j.previous_text))
            \o skip_if_none("next_text", opt_string(j.next_text))
            \o skip_if_none("previous_request_ids", opt_ids(j.previous_request_ids))
            \o skip_if_none("next_request_ids", opt_ids(j.next_request_ids))
            \o skip_if_none("apply_text_normalization",
                            opt_TextNormalization(j.apply_text_normalization))
            \o skip_if_none("apply_language_text_normalization",
                            opt_bool(j.apply_language_text_normalization)))

(***************************************************************************)
(* send_speech_request up to the await: validation, in the order of the    *)
(* code, then the construction of the HTTP request.                        *)
(***************************************************************************)
out_of_range(v) == f32_lt(v, MIN_VOICE_SETTING) \/ f32_gt(v, MAX_VOICE_SETTING)

validate_voice_settings(settings) ==
    IF is_some(settings.stability) /\ out_of_range(unwrap(settings.stability))
    THEN Some(InvalidVoiceSettings("stability", unwrap(settings.stability)))
    ELSE IF is_some(settings.similarity_boost)
            /\ out_of_range(unwrap(settings.similarity_boost))
    THEN Some(InvalidVoiceSettings("similarity_boost", unwrap(settings.similarity_boost)))
    ELSE IF is_some(settings.style) /\ out_of_range(unwrap(settings.style))
    THEN Some(InvalidVoiceSettings("style", unwrap(settings.style)))
    ELSE None

\* The first validation error, or None when the request passes.
validate(req, cl) ==
    IF str_is_empty(req.text) THEN Some(MissingInput)
    ELSE IF str_len(req.text) > MAX_INPUT_LENGTH THEN Some(InputTooLong(str_len(req.text)))
    ELSE LET vs == IF is_some(req.voice_settings)
                   THEN validate_voice_settings(unwrap(req.voice_settings))
                   ELSE None
         IN  IF is_some(vs) THEN vs
             ELSE IF cl.api_key = "" THEN Some(MissingApiKey)
             ELSE None

\* url::Url::parse of "{base_url}/v1/text-to-speech/{voice_id}?output_format={}":
\* it fails on a base that is not an absolute URL.
AbsoluteBases == {DEFAULT_BASE_URL, "http://localhost:8080"}

Url_parse(base_url, voice_id, fmt) ==
    IF base_url \in AbsoluteBases
    THEN Ok([base |-> base_url,
             path |-> <<"v1", "text-to-speech", voice_id>>,
             query |-> [output_format |-> fmt]])
    ELSE Err(HttpClient([kind |-> "BadUrl", url |-> "relative URL without a base"]))

request_headers(cl) ==
    ("xi-api-key" :> cl.api_key) @@ ("Content-Type" :> "application/json")

\* The HTTP request of a validated SpeechRequest, or the error of its construction.
\* serde_json::to_vec cannot fail on SpeechRequestJson (string keys only, a
\* non-finite f32 is written as null), so SerializationError does not arise.
build_http_request(req, cl) ==
    LET body == serialize_SpeechRequestJson(SpeechRequestJson_from(req))
        output_format_str == AudioFormat_as_str(unwrap_or(req.output_format, AudioFormat_default))
        url == Url_parse(cl.base_url, Voice_as_voice_id(req.voice), output_format_str)
    IN  IF url.ok
        THEN Ok([method |-> "POST", url |-> url.value, headers |-> request_headers(cl),
                 timeout |-> cl.timeout, body |-> body])
        ELSE url

\* A variant of execute whose validation reads the request of the builder
\* created first instead of its own.
execute_first_request(p) ==
    /\ Building(p)
    /\ LET invalid == validate(request[1], client)
           built == build_http_request(request[p], client)
       IN  IF is_some(invalid)
           THEN /\ result' = [result EXCEPT ![p] = Some(Err(unwrap(invalid)))]
                /\ pc' = [pc EXCEPT ![p] = "done"]
                /\ UNCHANGED <<http, calls>>
           ELSE IF ~built.ok
           THEN /\ result' = [result EXCEPT ![p] = Some(built)]
                /\ pc' = [pc EXCEPT ![p] = "done"]
                /\ UNCHANGED <<http, calls>>
           ELSE /\ http' = [http EXCEPT ![p] = Some(built.value)]
                /\ calls' = [calls EXCEPT ![p] = @ + 1]
                /\ pc' = [pc EXCEPT ![p] = "awaiting"]
                /\ UNCHANGED result
    /\ UNCHANGED <<client, request, answer>>

\* execute(): the builder is consumed and the future runs to its first await.
execute(p) ==
    /\ Building(p)
    /\ LET invalid == validate(request[p], client)
           built == build_http_request(request[p], client)
       IN  IF is_some(invalid)
           THEN /\ result' = [result EXCEPT ![p] = Some(Err(unwrap(invalid)))]
                /\ pc' = [pc EXCEPT ![p] = "done"]
                /\ UNCHANGED <<http, calls>>
           ELSE IF ~built.ok
           THEN /\ result' = [result EXCEPT ![p] = Some(built)]
                /\ pc' = [pc EXCEPT ![p] = "done"]
                /\ UNCHANGED <<http, calls>>
           ELSE /\ http' = [http EXCEPT ![p] = Some(built.value)]
                /\ calls' = [calls EXCEPT ![p] = @ + 1]
                /\ pc' = [pc EXCEPT ![p] = "awaiting"]
                /\ UNCHANGED result
    /\ UNCHANGED <<client, request, answer>>

(***************************************************************************)
(* The transport (send_request_await_response) answers the HTTP request of *)
(* a suspended call with a response or with an HttpClientError.            *)
(***************************************************************************)
Response(status, body) == Ok([status |-> status, body |-> body])

transport_answers(p, ans) ==
    /\ pc[p] = "awaiting"
    /\ answer' = [answer EXCEPT ![p] = Some(ans)]
    /\ pc' = [pc EXCEPT ![p] = "answered"]
    /\ UNCHANGED <<client, request, http, calls, result>>

(***************************************************************************)
(* serde_json::from_slice::<ApiErrorResponse>.  A body is given by its     *)
(* bytes, the JSON value they parse to (None when they are not JSON) and   *)
(* their String::from_utf8_lossy text.  A derived struct decodes from an   *)
(* object (unknown members ignored, an Option member absent or null is     *)
(* None) or from an array of its fields in order.                          *)
(***************************************************************************)
Body(bytes, json, lossy) == [bytes |-> bytes, json |-> json, lossy |-> lossy]

lookup(members, k) ==
    LET hits == {i \in 1..Len(members) : members[i].key = k}
    IN  IF hits = {} THEN None
        ELSE Some(members[CHOOSE i \in hits : \A j \in hits : j <= i].value)

is_opt_string(o) == is_none(o) \/ unwrap(o).t \in {"string", "null"}

decode_ApiErrorDetail(v) ==
    IF v.t = "object"
    THEN LET message == lookup(v.members, "message")
         IN  IF is_some(message) /\ unwrap(message).t = "string"
                /\ is_opt_string(lookup(v.members, "type"))
                /\ is_opt_string(lookup(v.members, "code"))
             THEN Some([message |-> unwrap(message).s])
             ELSE None
    ELSE IF v.t = "array"
    THEN IF Len(v.items) = 3 /\ v.items[1].t = "string"
            /\ v.items[2].t \in {"string", "null"} /\ v.items[3].t \in {"string", "null"}
         THEN Some([message |-> v.items[1].s])
         ELSE None
    ELSE None

decode_ApiErrorResponse(v) ==
    IF v.t = "object"
    THEN LET error == lookup(v.members, "error")
         IN  IF is_some(error)
             THEN LET detail == decode_ApiErrorDetail(unwrap(error))
                  IN  IF is_some(detail) THEN Some([error |-> unwrap(detail)]) ELSE None
             ELSE None
    ELSE IF v.t = "array"
    THEN IF Len(v.items) = 1
         THEN LET detail == decode_ApiErrorDetail(v.items[1])
              IN  IF is_some(detail) THEN Some([error |-> unwrap(detail)]) ELSE None
         ELSE None
    ELSE None

from_slice_ApiErrorResponse(body) ==
    IF is_none(body.json) THEN None ELSE decode_ApiErrorResponse(unwrap(body.json))

from_utf8_lossy(body) == body.lossy

\* http::StatusCode::is_success
is_success(status) == 200 <= status /\ status < 300

(***************************************************************************)
(* send_speech_request after the await: the classification of the answer.  *)
(***************************************************************************)
\* A variant of api_error that never reads the error envelope.
api_error_raw_body(status, body) == ApiError(status, from_utf8_lossy(body))

api_error(status, body) ==
    LET error_response == from_slice_ApiErrorResponse(body)
    IN  IF is_some(error_response)
        THEN ApiError(status, unwrap(error_response).error.message)
        ELSE ApiError(status, from_utf8_lossy(body))

\* A variant of classify that tags the audio with the default format.
classify_default_format(req, ans) ==
    IF ~ans.ok THEN Err(HttpClient(ans.err))
    ELSE IF is_success(ans.value.status)
    THEN Ok([audio_data |-> ans.value.body, format |-> AudioFormat_default])
    ELSE Err(api_error(ans.value.status, ans.value.body))

classify(req, ans) ==
    IF ~ans.ok THEN Err(HttpClient(ans.err))
    ELSE IF is_success(ans.value.status)
    THEN Ok([audio_data |-> ans.value.body,
             format |-> unwrap_or(req.output_format, AudioFormat_default)])
    ELSE Err(api_error(ans.value.status, ans.value.body))

\* A variant of resume that sends the request again when the answer is not a success.
resume_with_retry(p) ==
    /\ pc[p] = "answered"
    /\ LET outcome == classify(request[p], unwrap(answer[p]))
       IN  IF outcome.ok
           THEN /\ result' = [result EXCEPT ![p] = Some(outcome)]
                /\ pc' = [pc EXCEPT ![p] = "done"]
                /\ UNCHANGED calls
           ELSE /\ calls' = [calls EXCEPT ![p] = @ + 1]
                /\ pc' = [pc EXCEPT ![p] = "awaiting"]
                /\ UNCHANGED result
    /\ UNCHANGED <<client, request, http, answer>>

resume(p) ==
    /\ pc[p] = "answered"
    /\ result' = [result EXCEPT ![p] = Some(classify(request[p], unwrap(answer[p])))]
    /\ pc' = [pc EXCEPT ![p] = "done"]
    /\ UNCHANGED <<client, request, http, calls, answer>>

(***************************************************************************)
(* The inputs the actions draw from.                                       *)
(***************************************************************************)
ApiKeys == {"", "sk-test"}
BadBaseUrl == "api.elevenlabs.io"

\* Texts around the length limit: empty, one character, exactly the limit,
\* one byte over it, and a text of two-byte characters that is within the
\* limit counted in characters and over it counted in bytes.
Texts ==
    {Str(0, 0), Str(1, 0), Str(MAX_INPUT_LENGTH, 0), Str(MAX_INPUT_LENGTH + 1, 0),
     Str(0, MAX_INPUT_LENGTH \div 2 + 1)}

\* f32 values below, on, and above the bounds of a voice setting, and NaN.
F32s == {F32(-100), F32(0), F32(1000), F32(1500), NAN}

Statuses == {199, 200, 299, 300, 401, 500}

EnvelopeJson(detail) == JObject(<<Member("error", JObject(detail))>>)

Bodies ==
    {Body("\\x01\\x02\\x03", None, "\\u{1}\\u{2}\\u{3}"),
     Body("{\"error\":{\"message\":\"invalid key\"}}",
          Some(EnvelopeJson(<<Member("message", JString("invalid key"))>>)),
          "{\"error\":{\"message\":\"invalid key\"}}"),
     Body("{\"error\":{\"message\":\"quota\",\"type\":\"limit\",\"code\":null}}",
          Some(EnvelopeJson(<<Member("message", JString("quota")),
                              Member("type", JString("limit")),
                              Member("code", JNull)>>)),
          "{\"error\":{\"message\":\"quota\",\"type\":\"limit\",\"code\":null}}"),
     Body("{\"error\":{\"message\":\"m\",\"code\":5}}",
          Some(EnvelopeJson(<<Member("message", JString("m")),
                              Member("code", JUnsigned(5))>>)),
          "{\"error\":{\"message\":\"m\",\"code\":5}}"),
     Body("{\"detail\":\"nope\"}",
          Some(JObject(<<Member("detail", JString("nope"))>>)),
          "{\"detail\":\"nope\"}"),
     Body("[[\"busy\",null,null]]",
          Some(JArray(<<JArray(<<JString("busy"), JNull, JNull>>)>>)),
          "[[\"busy\",null,null]]"),
     Body("oops", None, "oops"),
     Body("\\xffoops", None, "\\u{fffd}oops")}

TransportErrors == {"ExecuteRequestFailed"}

Answers == {Response(s, b) : s \in Statuses, b \in Bodies} \cup {Err(e) : e \in TransportErrors}

(***************************************************************************)
(* Specifications.                                                         *)
(***************************************************************************)
Init ==
    /\ client \in {SpeechClient_new(k) : k \in ApiKeys}
    /\ pc = [p \in Procs |-> "idle"]
    /\ request = [p \in Procs |-> SpeechRequest_default]
    /\ http = [p \in Procs |-> None]
    /\ calls = [p \in Procs |-> 0]
    /\ answer = [p \in Procs |-> None]
    /\ result = [p \in Procs |-> None]
    /\ lastCall = [p \in Procs |-> "new"]

\* The history variable lastCall is kept by the specification that observes
\* the builder (SpecBuild); the others leave it alone.
Untracked == UNCHANGED lastCall
Tracked(p, method) == lastCall' = [lastCall EXCEPT ![p] = method]

\* One invocation, from construction to its outcome: validation and execution.
Next ==
    \/ with_base_url(BadBaseUrl) /\ Untracked
    \/ with_timeout(5000) /\ Untracked
    \/ synthesize(1) /\ Untracked
    \/ \E t \in Texts : text(1, t) /\ Untracked
    \/ \E v \in F32s : stability(1, v) /\ Untracked
    \/ \E v \in F32s : similarity_boost(1, v) /\ Untracked
    \/ \E v \in F32s : style(1, v) /\ Untracked
    \/ use_speaker_boost(1, TRUE) /\ Untracked
    \/ output_format(1, "Pcm16000") /\ Untracked
    \/ execute(1) /\ Untracked
    \/ \E ans \in Answers : transport_answers(1, ans) /\ Untracked
    \/ resume(1) /\ Untracked

Spec == Init /\ [][Next]_vars

\* The builder alone, observed through lastCall: the voice-settings setters
\* among setters of other fields.
BuildF32s == {F32(250), F32(750)}
BuildSettings ==
    {VoiceSettings_default,
     [VoiceSettings_default EXCEPT !.stability = Some(F32(250)), !.style = Some(F32(250))]}

NextBuild ==
    \/ synthesize(1) /\ Tracked(1, "synthesize")
    \/ text(1, Str(1, 0)) /\ Tracked(1, "text")
    \/ model(1, "ElevenV3") /\ Tracked(1, "model")
    \/ voice(1, "Drew") /\ Tracked(1, "voice")
    \/ \E settings \in BuildSettings : voice_settings(1, settings) /\ Tracked(1, "voice_settings")
    \/ \E v \in BuildF32s : stability(1, v) /\ Tracked(1, "stability")
    \/ \E v \in BuildF32s : similarity_boost(1, v) /\ Tracked(1, "similarity_boost")
    \/ \E v \in BuildF32s : style(1, v) /\ Tracked(1, "style")
    \/ \E b \in BOOLEAN : use_speaker_boost(1, b) /\ Tracked(1, "use_speaker_boost")
    \/ output_format(1, "Pcm16000") /\ Tracked(1, "output_format")
    \/ seed(1, 42) /\ Tracked(1, "seed")

SpecBuild == Init /\ [][NextBuild]_vars

\* Every setter of the builder, then execute(): the request on the wire.
WireF32s == {F32(500), NAN}

NextWire ==
    \/ synthesize(1) /\ Untracked
    \/ text(1, Str(1, 0)) /\ Untracked
    \/ input(1, Str(1, 0)) /\ Untracked
    \/ model(1, "ElevenV3") /\ Untracked
    \/ voice(1, "Drew") /\ Untracked
    \/ voice_settings(1, VoiceSettings_default) /\ Untracked
    \/ stability(1, F32(500)) /\ Untracked
    \/ similarity_boost(1, F32(500)) /\ Untracked
    \/ \E v \in WireF32s : style(1, v) /\ Untracked
    \/ use_speaker_boost(1, TRUE) /\ Untracked
    \/ output_format(1, "Pcm16000") /\ Untracked
    \/ response_format(1, "Pcm16000") /\ Untracked
    \/ language_code(1, "en") /\ Untracked
    \/ seed(1, 42) /\ Untracked
    \/ previous_text(1, "Hello.") /\ Untracked
    \/ next_text(1, "Bye.") /\ Untracked
    \/ previous_request_ids(1, <<"req-1">>) /\ Untracked
    \/ next_request_ids(1, <<"req-3", "req-4">>) /\ Untracked
    \/ apply_text_normalization(1, "On") /\ Untracked
    \/ apply_language_text_normalization(1, TRUE) /\ Untracked
    \/ execute(1) /\ Untracked

SpecWire == Init /\ [][NextWire]_vars

\* Several builders of the one client, built and executed concurrently.
ConcAnswers ==
    {Response(200, Body("\\x01\\x02\\x03", None, "\\u{1}\\u{2}\\u{3}")),
     Response(401, Body("{\"error\":{\"message\":\"invalid key\"}}",
                        Some(EnvelopeJson(<<Member("message", JString("invalid key"))>>)),
                        "{\"error\":{\"message\":\"invalid key\"}}")),
     Err("ExecuteRequestFailed")}

NextConc ==
    \/ with_base_url("http://localhost:8080") /\ Untracked
    \/ \E p \in Procs : synthesize(p) /\ Untracked
    \/ \E p \in Procs : text(p, Str(1, 0)) /\ Untracked
    \/ \E p \in Procs : stability(p, F32(1500)) /\ Untracked
    \/ \E p \in Procs : output_format(p, "Pcm16000") /\ Untracked
    \/ \E p \in Procs : execute(p) /\ Untracked
    \/ \E p \in Procs : \E ans \in ConcAnswers : transport_answers(p, ans) /\ Untracked
    \/ \E p \in Procs : resume(p) /\ Untracked

SpecConc == Init /\ [][NextConc]_vars

\* The host's executor polls a future again once the response it awaits has
\* arrived: an answered call is eventually resumed.
FairConc == SpecConc /\ \A p \in Procs : WF_vars(resume(p) /\ Untracked)

(***************************************************************************)
(* The vocabulary of the properties.  Lengths are counted in characters    *)
(* and a voice setting is in range when it is a number of [0.0, 1.0], as   *)
(* the specification states them.                                          *)
(***************************************************************************)
\* The number of characters of a text (its length in bytes is str_len).
chars_count(s) == s.ascii + s.wide

Done(p) == pc[p] = "done"
Outcome(p) == unwrap(result[p])
Failed(p, kind) == Done(p) /\ ~Outcome(p).ok /\ Outcome(p).err.kind = kind

ValidationKinds == {"MissingInput", "InputTooLong", "InvalidVoiceSettings", "MissingApiKey"}
SettingFields == <<"stability", "similarity_boost", "style">>

InUnitInterval(v) == ~v.nan /\ 0 <= v.milli /\ v.milli <= 1000

\* The value of a voice-settings field of a request, None when it is not set.
Setting(req, f) ==
    IF is_none(req.voice_settings) THEN None ELSE unwrap(req.voice_settings)[f]

BadSetting(req, f) == is_some(Setting(req, f)) /\ ~InUnitInterval(unwrap(Setting(req, f)))

TextMissing(req) == chars_count(req.text) = 0
TextTooLong(req) == chars_count(req.text) > 5000
SettingsBad(req) == \E i \in 1..3 : BadSetting(req, SettingFields[i])
KeyMissing(cl) == cl.api_key = ""

\* The first voice-settings field, in the order of validation, that is out of range.
FirstBadField(req) ==
    SettingFields[CHOOSE i \in 1..3 :
        /\ BadSetting(req, SettingFields[i])
        /\ \A j \in 1..(i - 1) : ~BadSetting(req, SettingFields[j])]

(***************************************************************************)
(* C1.  execute() applies the four validation stages in the order text     *)
(* non-empty, text length <= 5000, voice settings (stability, then         *)
(* similarity_boost, then style) in [0.0, 1.0], API key non-empty, and     *)
(* returns the error of the first stage that fails; within the third stage *)
(* the field reported is the first out-of-range one.                       *)
(***************************************************************************)
C1_FirstFailingStage ==
    \A p \in Procs : Done(p) =>
        LET req == request[p]
        IN  IF TextMissing(req) THEN Outcome(p) = Err(MissingInput)
            ELSE IF TextTooLong(req) THEN Failed(p, "InputTooLong")
            ELSE IF SettingsBad(req)
                 THEN /\ Failed(p, "InvalidVoiceSettings")
                      /\ Outcome(p).err.field = FirstBadField(req)
            ELSE IF KeyMissing(client) THEN Outcome(p) = Err(MissingApiKey)
            ELSE ~(\E k \in ValidationKinds : Failed(p, k))

(***************************************************************************)
(* C2.  An HTTP request is handed to the transport only if the text is     *)
(* non-empty and at most 5000 characters, every present stability,         *)
(* similarity_boost and style lies in [0.0, 1.0], and the API key is       *)
(* non-empty; when one of these is violated execute() ends with a          *)
(* validation error and no network call is made.                           *)
(***************************************************************************)
AllValid(req, cl) ==
    ~TextMissing(req) /\ ~TextTooLong(req) /\ ~SettingsBad(req) /\ ~KeyMissing(cl)

\* C2: a request reaches the transport only when every validation holds, and
\* an invalid one ends in a validation error without a network call.
C2_SentOnlyIfValid ==
    \A p \in Procs :
        /\ (calls[p] > 0 \/ is_some(http[p])) => AllValid(request[p], client)
        /\ (Done(p) /\ ~AllValid(request[p], client)) =>
               /\ \E k \in ValidationKinds : Failed(p, k)
               /\ calls[p] = 0

(***************************************************************************)
(* C3.  A text longer than 5000 characters fails with InputTooLong         *)
(* carrying the exact character count and no network call is made; a       *)
(* non-empty text of 5000 characters or fewer never yields InputTooLong,   *)
(* whether its characters take one byte or more.                           *)
(***************************************************************************)
C3_InputTooLongByCharacters ==
    \A p \in Procs : Done(p) =>
        /\ TextTooLong(request[p]) =>
               /\ Outcome(p) = Err(InputTooLong(chars_count(request[p].text)))
               /\ calls[p] = 0
        /\ (~TextMissing(request[p]) /\ ~TextTooLong(request[p])) =>
               ~Failed(p, "InputTooLong")

(***************************************************************************)
(* C4.  With a valid text, a stability, similarity_boost or style outside  *)
(* [0.0, 1.0] makes execute() fail with InvalidVoiceSettings naming that   *)
(* field and carrying that value; 0.0 and 1.0 are accepted for each, and   *)
(* use_speaker_boost never causes InvalidVoiceSettings.                    *)
(***************************************************************************)
C4_InvalidVoiceSettings ==
    \A p \in Procs : (Done(p) /\ ~TextMissing(request[p]) /\ ~TextTooLong(request[p])) =>
        LET req == request[p]
        IN  IF SettingsBad(req)
            THEN Outcome(p) = Err(InvalidVoiceSettings(FirstBadField(req),
                                      unwrap(Setting(req, FirstBadField(req)))))
            ELSE ~Failed(p, "InvalidVoiceSettings")

(***************************************************************************)
(* C7.  When the transport answers a validated request with a status in    *)
(* the success range, execute() returns a SpeechResponse whose audio_data  *)
(* is the response body and whose format is the request's output format,   *)
(* or mp3_44100_128 when none was set: the format sent as the              *)
(* output_format query parameter of the request's URL.                     *)
(***************************************************************************)
Answered(p) == is_some(answer[p]) /\ unwrap(answer[p]).ok
AnswerStatus(p) == unwrap(answer[p]).value.status
AnswerBody(p) == unwrap(answer[p]).value.body
InSuccessRange(status) == status \in 200..299

\* C7: a success status yields the body as audio in the format sent in the URL.
C7_SuccessResponse ==
    \A p \in Procs : (Done(p) /\ Answered(p) /\ InSuccessRange(AnswerStatus(p))) =>
        LET chosen == IF is_none(request[p].output_format) THEN "Mp3_44100_128"
                      ELSE unwrap(request[p].output_format)
            sent == unwrap(http[p]).url.query.output_format
        IN  /\ Outcome(p) = Ok([audio_data |-> AnswerBody(p), format |-> chosen])
            /\ sent = AudioFormat_as_str(chosen)
            /\ is_none(request[p].output_format) => sent = "mp3_44100_128"

C7_Witness ==
    /\ Done(1) /\ Answered(1) /\ AnswerStatus(1) = 200
    /\ AnswerBody(1).bytes = "\\x01\\x02\\x03"
    /\ request[1].output_format = Some("Pcm16000")
    /\ Outcome(1).ok /\ Outcome(1).value.format = "Pcm16000"

(***************************************************************************)
(* C8.  When the transport answers a validated request with a status       *)
(* outside the success range, execute() returns ApiError with that status; *)
(* its message is the envelope's error.message when the body decodes as    *)
(* the error envelope and the body as best-effort text otherwise.  Such a  *)
(* status never yields a SpeechResponse or another kind of error.          *)
(***************************************************************************)
\* C8: a non-success status yields ApiError with that status and the message
\* of the decoded envelope, or the body as text.
C8_ApiError ==
    \A p \in Procs : (Done(p) /\ Answered(p) /\ ~InSuccessRange(AnswerStatus(p))) =>
        LET envelope == from_slice_ApiErrorResponse(AnswerBody(p))
            message == IF is_some(envelope) THEN unwrap(envelope).error.message
                       ELSE AnswerBody(p).lossy
        IN  /\ Outcome(p) = Err(ApiError(AnswerStatus(p), message))
            /\ AnswerBody(p).bytes = "{\"error\":{\"message\":\"invalid key\"}}"
                   => Outcome(p).err.message = "invalid key"
            /\ AnswerBody(p).bytes = "oops" => Outcome(p).err.message = "oops"
            /\ AnswerBody(p).bytes = "{\"detail\":\"nope\"}"
                   => Outcome(p).err.message = "{\"detail\":\"nope\"}"

C8_Witness ==
    /\ Done(1) /\ Answered(1) /\ AnswerStatus(1) = 401
    /\ AnswerBody(1).bytes = "{\"error\":{\"message\":\"invalid key\"}}"
    /\ Outcome(1) = Err(ApiError(401, "invalid key"))

(***************************************************************************)
(* C5.  A call of stability, similarity_boost, style or use_speaker_boost  *)
(* sets exactly that sub-field of voice_settings to Some(new value): the   *)
(* other three sub-fields keep the values they had (None if voice_settings *)
(* was absent) and every request field outside voice_settings is           *)
(* unchanged.                                                              *)
(***************************************************************************)
SubFields == {"stability", "similarity_boost", "style", "use_speaker_boost"}

SubFieldBefore(p, g) ==
    IF is_none(request[p].voice_settings) THEN None ELSE unwrap(request[p].voice_settings)[g]

OnlySubFieldSet(p, f, v) ==
    /\ is_some(request'[p].voice_settings)
    /\ unwrap(request'[p].voice_settings)[f] = Some(v)
    /\ \A g \in SubFields \ {f} : unwrap(request'[p].voice_settings)[g] = SubFieldBefore(p, g)
    /\ \A h \in DOMAIN request[p] \ {"voice_settings"} : request'[p][h] = request[p][h]
    /\ \A q \in Procs \ {p} : request'[q] = request[q]

\* C5: every step that is a call of a sub-field setter sets that sub-field only.
C5_SubFieldSetterFrame ==
    [][\A p \in Procs :
          /\ \A v \in BuildF32s :
                /\ stability(p, v) => OnlySubFieldSet(p, "stability", v)
                /\ similarity_boost(p, v) => OnlySubFieldSet(p, "similarity_boost", v)
                /\ style(p, v) => OnlySubFieldSet(p, "style", v)
          /\ \A b \in BOOLEAN :
                use_speaker_boost(p, b) => OnlySubFieldSet(p, "use_speaker_boost", b)]_vars

\* stability was called last, on settings that held two other sub-fields, in
\* a request with other fields set.
C5_Witness ==
    /\ lastCall[1] = "stability"
    /\ request[1].voice_settings =
           Some([stability |-> Some(F32(750)), similarity_boost |-> Some(F32(250)),
                 style |-> None, use_speaker_boost |-> Some(FALSE)])
    /\ request[1].text = Str(1, 0)
    /\ request[1].seed = Some(42)

(***************************************************************************)
(* C6.  The wire JSON body of a built request omits every field that was   *)
(* never set and includes exactly the fields that were set, under the      *)
(* correct wire keys (the model under model_id), with no null placeholder  *)
(* for an absent optional field.                                           *)
(***************************************************************************)
Keys(obj) == {obj.members[i].key : i \in 1..Len(obj.members)}
ValueAt(obj, k) == obj.members[CHOOSE i \in 1..Len(obj.members) : obj.members[i].key = k].value
NoDuplicateKeys(obj) == Cardinality(Keys(obj)) = Len(obj.members)

WireBody(p) == serialize_SpeechRequestJson(SpeechRequestJson_from(request[p]))
WireKey(f) == IF f = "model" THEN "model_id" ELSE f

\* The fields of a request that differ from a fresh builder's: fields that were set.
ChangedFields(req) == {f \in DOMAIN req : req[f] # SpeechRequest_default[f]}

\* C6, the statement as it stands: the keys of the body are those of the fields set.
C6_BodyHoldsExactlyTheFieldsSet ==
    \A p \in Procs : pc[p] # "idle" =>
        Keys(WireBody(p)) = {WireKey(f) : f \in ChangedFields(request[p])}

\* C6 as amended: text and model_id are always in the body, model_id holding the
\* wire name of the model set or of the default model; each optional body
\* field, and each sub-field of voice_settings, is in the body exactly when
\* it is set; voice and output_format are never in the body; and the body
\* handed to the transport is this one.
OptionalBodyFields ==
    {"language_code", "voice_settings", "seed", "previous_text", "next_text",
     "previous_request_ids", "next_request_ids", "apply_text_normalization",
     "apply_language_text_normalization"}

\* C6 (amended): the keys and values of the wire body of every built request.
C6_WireBody ==
    \A p \in Procs : pc[p] # "idle" =>
        LET req == request[p]
            body == WireBody(p)
        IN  /\ NoDuplicateKeys(body)
            /\ Keys(body) = {"text", "model_id"}
                               \cup {f \in OptionalBodyFields : is_some(req[f])}
            /\ ValueAt(body, "text") = JText(req.text)
            /\ ValueAt(body, "model_id") =
                   JString(IF req.model = "ElevenV3" THEN "eleven_v3"
                           ELSE "eleven_multilingual_v2")
            /\ is_some(req.voice_settings) =>
                   LET vs == ValueAt(body, "voice_settings")
                   IN  /\ vs.t = "object"
                       /\ NoDuplicateKeys(vs)
                       /\ Keys(vs) = {g \in SubFields : is_some(unwrap(req.voice_settings)[g])}
            /\ is_some(req.seed) => ValueAt(body, "seed") = JUnsigned(unwrap(req.seed))
            /\ is_some(req.language_code) =>
                   ValueAt(body, "language_code") = JString(unwrap(req.language_code))
            /\ is_some(req.previous_text) =>
                   ValueAt(body, "previous_text") = JString(unwrap(req.previous_text))
            /\ is_some(req.next_text) =>
                   ValueAt(body, "next_text") = JString(unwrap(req.next_text))
            /\ is_some(req.apply_text_normalization) =>
                   ValueAt(body, "apply_text_normalization") = JString("on")
            /\ is_some(http[p]) => unwrap(http[p]).body = body

\* A request with fields of every sort set and others not, sent to the transport.
C6_Witness ==
    /\ pc[1] = "awaiting"
    /\ request[1].model = "ElevenV3"
    /\ request[1].voice = "Drew"
    /\ request[1].output_format = Some("Pcm16000")
    /\ request[1].previous_text = Some("Hello.")
    /\ is_none(request[1].next_text)
    /\ is_none(request[1].seed)
    /\ request[1].voice_settings =
           Some([VoiceSettings_default EXCEPT !.style = Some(NAN)])
    /\ Keys(unwrap(http[1]).body) = {"text", "model_id", "voice_settings", "previous_text"}

(***************************************************************************)
(* C9.  Every execute() is a single attempt with a single terminal         *)
(* outcome: the transport is invoked at most once, never again after it    *)
(* has answered or failed, and once it has, the call eventually ends in    *)
(* exactly one of a SpeechResponse (the full body) or one TtsError.        *)
(***************************************************************************)
OneOutcome(p) ==
    LET r == Outcome(p)
    IN  \/ /\ r.ok
           /\ DOMAIN r = {"ok", "value"}
           /\ Answered(p)
           /\ r.value.audio_data = AnswerBody(p)
        \/ /\ ~r.ok
           /\ DOMAIN r = {"ok", "err"}

\* C9: at most one transport call, none after the answer, one terminal
\* outcome, and every answered call eventually ends.
C9_SingleAttempt ==
    /\ [](\A p \in Procs : /\ calls[p] <= 1
                           /\ Done(p) <=> is_some(result[p])
                           /\ Done(p) => OneOutcome(p))
    /\ [][\A p \in Procs :
             /\ pc[p] \in {"answered", "done"} => (calls'[p] = calls[p] /\ http'[p] = http[p])
             /\ Done(p) => (Done(p)' /\ result'[p] = result[p])]_vars
    /\ \A p \in Procs : (pc[p] = "answered") ~> Done(p)

\* One call failed in the transport, the other was refused by the API; each
\* made one call and ended in its error.
C9_Witness ==
    /\ Done(1) /\ calls[1] = 1 /\ ~unwrap(answer[1]).ok /\ Failed(1, "HttpClient")
    /\ Done(2) /\ calls[2] = 1 /\ Failed(2, "ApiError")

(***************************************************************************)
(* C10.  With several builders of one client built and executed            *)
(* concurrently, the client's api_key, base_url and timeout never change,  *)
(* and the outcome of each invocation is what it would be alone: it        *)
(* depends only on its own request, the client configuration and the       *)
(* transport's answer to its own call.                                     *)
(***************************************************************************)
\* What an invocation run alone returns for a request, a client and an answer.
AloneOutcome(req, cl, ans) ==
    IF is_some(validate(req, cl)) THEN Err(unwrap(validate(req, cl)))
    ELSE IF ~build_http_request(req, cl).ok THEN build_http_request(req, cl)
    ELSE classify(req, unwrap(ans))

Invocation(p) == <<pc[p], request[p], http[p], calls[p], answer[p], result[p]>>

\* C10: each outcome is that of the invocation alone, the client is not
\* changed while a builder exists, and a step changes one invocation only.
C10_ConcurrentInvocations ==
    /\ [](\A p \in Procs :
            /\ Done(p) => Outcome(p) = AloneOutcome(request[p], client, answer[p])
            /\ is_some(http[p]) =>
                   http[p] = Some(build_http_request(request[p], client).value))
    /\ [][/\ (\E p \in Procs : pc[p] # "idle") => client' = client
          /\ \A p, q \in Procs :
                p # q => (Invocation(p)' = Invocation(p) \/ Invocation(q)' = Invocation(q))]_vars

\* Two invocations of different requests, in flight together and then ended
\* differently.
C10_Witness ==
    /\ Done(1) /\ Outcome(1).ok /\ Outcome(1).value.format = "Pcm16000"
    /\ Done(2) /\ Failed(2, "InvalidVoiceSettings")
    /\ client.base_url = "http://localhost:8080"

====
